---- MODULE Spec2Model ----
\* Model of the STX-HUB mock service (COA search, six master-data import
\* endpoints, health check).  JavaScript strings are sequences of
\* one-character strings, JavaScript numbers are exact rationals (plus NaN and
\* the infinities), and JSON values are tagged records.
EXTENDS Integers, Sequences, FiniteSets, TLC

VARIABLES clock, req, res, memo, ccReq, ccName, ccOut

vars == <<clock, req, res, memo, ccReq, ccName, ccOut>>

\* ------------------------------------------------------------------ bounds
MaxLen == 5
MaxNested == 1
MaxClock == 1
MaxGuid == 2

\* ------------------------------------------------------- strings and chars
UpperChars == <<"A","B","C","D","E","F","G","H","I","J","K","L","M",
                "N","O","P","Q","R","S","T","U","V","W","X","Y","Z">>
LowerChars == <<"a","b","c","d","e","f","g","h","i","j","k","l","m",
                "n","o","p","q","r","s","t","u","v","w","x","y","z">>
DigitChars == <<"0","1","2","3","4","5","6","7","8","9">>

IndexIn(c, tbl) == IF \E i \in DOMAIN tbl : tbl[i] = c
                   THEN CHOOSE i \in DOMAIN tbl : tbl[i] = c
                   ELSE 0

LowerChar(c) == IF IndexIn(c, UpperChars) > 0 THEN LowerChars[IndexIn(c, UpperChars)] ELSE c
UpperChar(c) == IF IndexIn(c, LowerChars) > 0 THEN UpperChars[IndexIn(c, LowerChars)] ELSE c

\* String.prototype.toLowerCase
toLowerCase(s) == [i \in DOMAIN s |-> LowerChar(s[i])]

\* capitalize(s): (s || '').charAt(0).toUpperCase() + (s || '').slice(1)
capitalize(s) == IF s = <<>> THEN <<>> ELSE <<UpperChar(Head(s))>> \o Tail(s)

\* ----------------------------------------------------------------- numbers
NaN == [k |-> "nan", n |-> 0, d |-> 1]
Infinity == [k |-> "inf", n |-> 1, d |-> 1]
NegInfinity == [k |-> "inf", n |-> -1, d |-> 1]

Abs(i) == IF i < 0 THEN -i ELSE i

RECURSIVE GCD(_, _)
GCD(a, b) == IF b = 0 THEN a ELSE GCD(b, a % b)

\* the finite number n/d in lowest terms (d > 0)
Rat(n, d) == LET g == GCD(Abs(n), d) IN [k |-> "fin", n |-> n \div g, d |-> d \div g]
Num(i) == Rat(i, 1)

NumLE(a, b) == a.n * b.d <= b.n * a.d
NumLT(a, b) == a.n * b.d < b.n * a.d

\* Number.isFinite
NumberIsFinite(x) == x.k = "fin"

\* Math.min / Math.max on two numbers (NaN if either is NaN)
MathMin(a, b) ==
  IF a.k = "nan" \/ b.k = "nan" THEN NaN
  ELSE IF a.k = "inf" THEN (IF a.n < 0 THEN a ELSE b)
  ELSE IF b.k = "inf" THEN (IF b.n < 0 THEN b ELSE a)
  ELSE IF NumLE(a, b) THEN a ELSE b
MathMax(a, b) ==
  IF a.k = "nan" \/ b.k = "nan" THEN NaN
  ELSE IF a.k = "inf" THEN (IF a.n > 0 THEN a ELSE b)
  ELSE IF b.k = "inf" THEN (IF b.n > 0 THEN b ELSE a)
  ELSE IF NumLE(a, b) THEN b ELSE a

\* a - b on finite numbers
Minus(a, b) == Rat(a.n * b.d - b.n * a.d, a.d * b.d)

\* ---------------------------------------------- StringToNumber (Number(s))
RECURSIVE DigitsValue(_)
DigitsValue(s) == IF s = <<>> THEN 0
                  ELSE 10 * DigitsValue(SubSeq(s, 1, Len(s) - 1))
                       + (IndexIn(s[Len(s)], DigitChars) - 1)

RECURSIVE Pow10(_)
Pow10(k) == IF k = 0 THEN 1 ELSE 10 * Pow10(k - 1)

AllDigits(s) == \A i \in DOMAIN s : IndexIn(s[i], DigitChars) > 0

RECURSIVE TrimLeft(_)
TrimLeft(s) == IF s # <<>> /\ Head(s) = " " THEN TrimLeft(Tail(s)) ELSE s
RECURSIVE TrimRight(_)
TrimRight(s) == IF s # <<>> /\ s[Len(s)] = " " THEN TrimRight(SubSeq(s, 1, Len(s) - 1)) ELSE s
Trim(s) == TrimRight(TrimLeft(s))

InfinityChars == <<"I","n","f","i","n","i","t","y">>

\* unsigned decimal literal: digits, digits '.' digits?, '.' digits
\* (exponent and 0x/0o/0b forms are outside the inputs drawn below)
UnsignedDecimal(s) ==
  LET dots == {i \in DOMAIN s : s[i] = "."} IN
  IF s = <<>> THEN NaN
  ELSE IF dots = {} THEN (IF AllDigits(s) THEN Num(DigitsValue(s)) ELSE NaN)
  ELSE IF Cardinality(dots) > 1 THEN NaN
  ELSE LET p    == CHOOSE i \in dots : TRUE
           ip   == SubSeq(s, 1, p - 1)
           fp   == SubSeq(s, p + 1, Len(s))
       IN IF AllDigits(ip) /\ AllDigits(fp) /\ (ip # <<>> \/ fp # <<>>)
          THEN Rat(DigitsValue(ip) * Pow10(Len(fp)) + DigitsValue(fp), Pow10(Len(fp)))
          ELSE NaN

StringToNumber(str) ==
  LET s == Trim(str) IN
  IF s = <<>> THEN Num(0)
  ELSE LET neg  == Head(s) = "-"
           body == IF Head(s) \in {"-", "+"} THEN Tail(s) ELSE s
           u    == IF body = InfinityChars THEN Infinity ELSE UnsignedDecimal(body)
       IN IF u.k = "nan" THEN NaN
          ELSE IF neg THEN [u EXCEPT !.n = -u.n] ELSE u

\* ------------------------------------------------- query-string values
\* what the query parser yields for one key: undefined (absent), a string,
\* an array of strings (repeated key / key[]), or an object (key[x]=..)
QUndefined == [t |-> "undefined", s |-> <<>>, a |-> <<>>]
QString(s) == [t |-> "string", s |-> s, a |-> <<>>]
QArray(a)  == [t |-> "array", s |-> <<>>, a |-> a]
QObject    == [t |-> "object", s |-> <<>>, a |-> <<>>]

\* truthiness of a query value (used by `x || 'ok'`)
QTruthy(q) == ~(q.t = "undefined" \/ (q.t = "string" /\ q.s = <<>>))

RECURSIVE JoinComma(_)
JoinComma(a) == IF a = <<>> THEN <<>>
                ELSE IF Len(a) = 1 THEN a[1]
                ELSE a[1] \o <<",">> \o JoinComma(Tail(a))

\* Number(q): ToNumber of a query value
ToNumber(q) ==
  CASE q.t = "undefined" -> NaN
    [] q.t = "string"    -> StringToNumber(q.s)
    [] q.t = "array"     -> StringToNumber(JoinComma(q.a))
    [] q.t = "object"    -> NaN

\* ------------------------------------------------------------ JSON values
JsUndefined == [t |-> "undefined"]
JsNull      == [t |-> "null"]
JsString    == [t |-> "string"]
JsArray(k)  == [t |-> "array", e |-> [i \in 1..k |-> i]]
JsObject(f) == [t |-> "object", f |-> f]
JsNumber(v) == [t |-> "number", v |-> v]
JsText(v)   == [t |-> "string", v |-> v]
\* pseudo-value: the TypeError raised by a property read on undefined/null
TypeError   == [t |-> "TypeError"]

Truthy(v)  == v.t \notin {"undefined", "null"}
IsArray(v) == v.t = "array"
Raised(v)  == v.t = "TypeError"

\* base[key] for the keys used by the service
Get(base, key) ==
  IF base.t \in {"undefined", "null"} THEN TypeError
  ELSE IF base.t = "request" THEN (IF key = "body" THEN base.body ELSE JsUndefined)
  ELSE IF base.t = "object" /\ key \in DOMAIN base.f THEN base.f[key]
  ELSE JsUndefined

Return(v) == [threw |-> FALSE, value |-> v]
Threw     == [threw |-> TRUE, value |-> NaN]

\* ---------------------------------------------------------- computeCounts
\* variant: the nested lookup without the `body.items &&` guard
computeCounts_Unguarded(r, arrayName) ==
  IF ~Truthy(r) \/ ~Truthy(Get(r, "body")) THEN Return(Num(0))
  ELSE LET body   == Get(r, "body")
           top    == Get(body, arrayName)
           nested == Get(Get(body, "items"), arrayName)
       IN IF IsArray(top) THEN Return(Num(Len(top.e)))
          ELSE IF Raised(nested) THEN Threw
          ELSE IF IsArray(nested) THEN Return(Num(Len(nested.e)))
          ELSE Return(Num(0))

computeCounts(r, arrayName) ==
  IF ~Truthy(r) \/ ~Truthy(Get(r, "body")) THEN Return(Num(0))
  ELSE LET body   == Get(r, "body")
           top    == Get(body, arrayName)
           items  == Get(body, "items")
           nested == Get(items, arrayName)
       IN IF Raised(top) THEN Threw
          ELSE IF IsArray(top) THEN Return(Num(Len(top.e)))
          ELSE IF Raised(items) THEN Threw
          ELSE IF Truthy(items) /\ Raised(nested) THEN Threw
          ELSE IF Truthy(items) /\ IsArray(nested) THEN Return(Num(Len(nested.e)))
          ELSE Return(Num(0))

\* ---------------------------------------------------- buildImportResponse
SuccessSuffix == " master data imported successfully"
FailureSuffix == " master data import failed"

\* variant: the message carries the time of the call
buildImportResponse_Stamped(ok, entity, received, processed, success, fail, errors, ts, id, now) ==
  [ status         |-> IF ok THEN "Success" ELSE "Failure",
    message        |-> IF ok THEN <<capitalize(entity), SuccessSuffix, ts>>
                             ELSE <<capitalize(entity), FailureSuffix, ts>>,
    timestamp      |-> ts,
    requestId      |-> id,
    jobId          |-> <<"mock-", now>>,
    receivedCount  |-> received,
    processedCount |-> processed,
    successCount   |-> success,
    failCount      |-> fail,
    errors         |-> errors ]

buildImportResponse(ok, entity, received, processed, success, fail, errors, ts, id, now) ==
  [ status         |-> IF ok THEN "Success" ELSE "Failure",
    message        |-> IF ok THEN <<capitalize(entity), SuccessSuffix>>
                             ELSE <<capitalize(entity), FailureSuffix>>,
    timestamp      |-> ts,
    requestId      |-> id,
    jobId          |-> <<"mock-", now>>,
    receivedCount  |-> received,
    processedCount |-> processed,
    successCount   |-> success,
    failCount      |-> fail,
    errors         |-> errors ]

\* ------------------------------------------------------------ importHandler
ValidationError == [lineNo |-> 1, message |-> "Validation error (mock)"]
ServerError     == [lineNo |-> 1, message |-> "Simulated server error (mock)"]

\* variant: the mode is compared as written, without toLowerCase
ModeOf_CaseSensitive(r) ==
  LET raw == IF QTruthy(r.query.mode) THEN r.query.mode ELSE QString(<<"o","k">>) IN
  IF raw.t = "string" THEN Return(raw.s) ELSE Threw

\* `(req.query.mode || 'ok').toLowerCase()`: a TypeError when the truthy
\* value is not a string
ModeOf(r) ==
  LET raw == IF QTruthy(r.query.mode) THEN r.query.mode ELSE QString(<<"o","k">>) IN
  IF raw.t = "string" THEN Return(toLowerCase(raw.s)) ELSE Threw

ModeEmpty   == <<"e","m","p","t","y">>
ModePartial == <<"p","a","r","t","i","a","l">>
ModeError   == <<"e","r","r","o","r">>

\* variant: the failCount expression without the Math.min clamp
PartialFailCount_NoClamp(processedCount, failQ) ==
  IF NumberIsFinite(ToNumber(failQ)) THEN ToNumber(failQ)
  ELSE (IF NumLT(Num(0), processedCount) THEN Num(1) ELSE Num(0))

\* case 'partial': the failCount expression
PartialFailCount(processedCount, failQ) ==
  MathMin(processedCount,
          IF NumberIsFinite(ToNumber(failQ)) THEN ToNumber(failQ)
          ELSE (IF NumLT(Num(0), processedCount) THEN Num(1) ELSE Num(0)))

\* case 'partial': the successCount expression
PartialSuccessCount(processedCount, failCount) ==
  MathMax(Num(0), Minus(processedCount, failCount))

\* the handler's local variables before the switch ("Baseline counts")
Baseline(count) ==
  [ receivedCount |-> count, processedCount |-> count,
    successCount |-> count, failCount |-> Num(0),
    status |-> "Success", errors |-> <<>>,
    errorLineNumber |-> JsNull, errorMessage |-> JsNull ]

\* variant: receivedCount is left at the baseline
CaseEmpty_KeepsReceived(l) ==
  [l EXCEPT !.processedCount = Num(0), !.successCount = Num(0), !.failCount = Num(0)]

CaseEmpty(l) ==
  [l EXCEPT !.receivedCount = Num(0), !.processedCount = Num(0),
            !.successCount = Num(0), !.failCount = Num(0)]

\* variant: the validation entry is added whatever failCount is
CasePartial_AlwaysEntry(l, failQ) ==
  LET fc == PartialFailCount(l.processedCount, failQ) IN
  [l EXCEPT !.failCount = fc,
            !.successCount = PartialSuccessCount(l.processedCount, fc),
            !.errors = <<ValidationError>>]

CasePartial(l, failQ) ==
  LET fc == PartialFailCount(l.processedCount, failQ) IN
  [l EXCEPT !.failCount = fc,
            !.successCount = PartialSuccessCount(l.processedCount, fc),
            !.errors = IF NumLT(Num(0), fc) THEN <<ValidationError>> ELSE l.errors]

\* variant: processedCount is left at the baseline
CaseError_KeepsProcessed(l) ==
  [l EXCEPT !.status = "Failure",
            !.successCount = Num(0),
            !.failCount = l.receivedCount,
            !.errors = <<ServerError>>,
            !.errorLineNumber = JsNumber(1),
            !.errorMessage = JsText("Simulated import failure")]

CaseError(l) ==
  [l EXCEPT !.status = "Failure",
            !.processedCount = Num(0),
            !.successCount = Num(0),
            !.failCount = l.receivedCount,
            !.errors = <<ServerError>>,
            !.errorLineNumber = JsNumber(1),
            !.errorMessage = JsText("Simulated import failure")]

\* the local variables of the handler after the switch
SwitchMode(mode, count, failQ) ==
  CASE mode = ModeEmpty   -> CaseEmpty(Baseline(count))
    [] mode = ModePartial -> CasePartial(Baseline(count), failQ)
    [] mode = ModeError   -> CaseError(Baseline(count))
    [] OTHER              -> Baseline(count)

\* the express default error handler: an exception escaping a route handler
\* is answered with HTTP 500 and an HTML error page
ExpressErrorResponse == [http |-> 500, json |-> [html |-> "TypeError"]]

\* the handler importHandler(arrayName, entityLabel) applied to request r;
\* t1,g1 are the timestamp and guid drawn inside buildImportResponse, now the
\* Date.now() of jobId, t2,g2 the final timestamp and requestId
importHandler(arrayName, entityLabel, r, t1, g1, now, t2, g2) ==
  LET mode  == ModeOf(r)
      count == computeCounts(r, arrayName)
  IN IF mode.threw \/ count.threw THEN ExpressErrorResponse
     ELSE LET l    == SwitchMode(mode.value, count.value, r.query.fail)
              base == buildImportResponse(l.status = "Success", entityLabel,
                                          l.receivedCount, l.processedCount,
                                          l.successCount, l.failCount, l.errors,
                                          t1, g1, now)
              payload == (IF l.errorLineNumber # JsNull
                             THEN "errorLineNumber" :> l.errorLineNumber.v ELSE <<>>)
                         @@ (IF l.errorMessage # JsNull
                             THEN "errorMessage" :> l.errorMessage.v ELSE <<>>)
                         @@ [base EXCEPT !.timestamp = t2, !.requestId = g2]
          IN [http |-> 200, json |-> payload]

\* ------------------------------------------------------ COA search handler
CoaRecord ==
  [ lineNo |-> 1, accountNumber |-> "100100", description |-> "Cash Account",
    debitCreditFlag |-> "D", accountType |-> "AP", fxPositionType |-> "CASH",
    balanceControlFlag |-> "N", revaluationFlag |-> "N", activeFlag |-> "Y",
    lastUpdateProgramId |-> "GLA+", lastUpdateUserId |-> "ADMIN",
    lastUpdateDatetime |-> "2025-11-04 23:23:23.000", errorMessage |-> JsNull ]

searchHandler(r, ts) ==
  LET mode == ModeOf(r) IN
  IF mode.threw THEN ExpressErrorResponse
  ELSE IF mode.value = ModeEmpty THEN
    [http |-> 200,
     json |-> [status |-> "Success", message |-> "COA data search completed",
               timestamp |-> ts, recordCount |-> 0, coas |-> <<>>]]
  ELSE IF mode.value = ModeError THEN
    [http |-> 200,
     json |-> [status |-> "Failure", message |-> "COA data search failed",
               timestamp |-> ts, recordCount |-> 0, coas |-> <<>>,
               errorMessage |-> "Simulated error for testing"]]
  ELSE
    [http |-> 200,
     json |-> [status |-> "Success", message |-> "COA data search completed",
               timestamp |-> ts, recordCount |-> 1, coas |-> <<CoaRecord>>]]

\* ----------------------------------------------------------- health handler
healthHandler(r, ts) == [http |-> 200, json |-> [status |-> "ok", timestamp |-> ts]]

\* -------------------------------------------------------------------- routes
SearchPath == "/api/v1/coas/search"
HealthPath == "/health"

ImportRoutes ==
  [ p \in { "/api/v1/business-groups/import", "/api/v1/customers/import",
            "/api/v1/suppliers/import", "/api/v1/supplier-banks/import",
            "/api/v1/exchange-rates/import", "/api/v1/trades/import" } |->
    CASE p = "/api/v1/business-groups/import" ->
           [arrayName |-> "businessGroups",
            entityLabel |-> <<"B","u","s","i","n","e","s","s"," ","g","r","o","u","p">>]
      [] p = "/api/v1/customers/import" ->
           [arrayName |-> "customers",
            entityLabel |-> <<"C","u","s","t","o","m","e","r">>]
      [] p = "/api/v1/suppliers/import" ->
           [arrayName |-> "suppliers",
            entityLabel |-> <<"S","u","p","p","l","i","e","r">>]
      [] p = "/api/v1/supplier-banks/import" ->
           [arrayName |-> "supplierBanks",
            entityLabel |-> <<"S","u","p","p","l","i","e","r"," ","b","a","n","k">>]
      [] p = "/api/v1/exchange-rates/import" ->
           [arrayName |-> "exchangeRates",
            entityLabel |-> <<"E","x","c","h","a","n","g","e"," ","r","a","t","e">>]
      [] p = "/api/v1/trades/import" ->
           [arrayName |-> "trades",
            entityLabel |-> <<"T","r","a","d","e">>] ]

ImportPaths == DOMAIN ImportRoutes
ArrayNames  == {ImportRoutes[p].arrayName : p \in ImportPaths}
Paths       == ImportPaths \cup {SearchPath, HealthPath}

\* ------------------------------------------------------------------- inputs
Guids == 1..MaxGuid

Modes ==
  { QUndefined, QString(<<>>),
    QString(<<"o","k">>),
    QString(<<"e","m","p","t","y">>), QString(<<"E","m","p","t","y">>),
    QString(<<"p","a","r","t","i","a","l">>), QString(<<"P","A","R","T","I","A","L">>),
    QString(<<"e","r","r","o","r">>), QString(<<"E","R","R","O","R">>),
    QString(<<"b","o","g","u","s">>),
    QArray(<< <<"o","k">>, <<"e","r","r","o","r">> >>),
    QObject }

Fails ==
  { QUndefined, QString(<<>>),
    QString(<<"0">>), QString(<<"2">>), QString(<<"7">>),
    QString(<<"-","3">>), QString(<<"1",".","5">>),
    QString(<<"a","b","c">>),
    QArray(<< <<"2">> >>) }

\* a JSON object body with `top` under `key` and `items` under "items"
\* (JsUndefined: the key is not present)
MkObject(key, top, items) ==
  JsObject( (IF top = JsUndefined THEN <<>> ELSE key :> top)
            @@ (IF items = JsUndefined THEN <<>> ELSE "items" :> items) )

Arrays(maxLen) == {JsArray(k) : k \in 0..maxLen}

BodyKeys == ArrayNames

\* request bodies offered to the routes: no body, a top-level JSON array, and
\* objects with or without the field and with or without a nested array
Bodies ==
  {JsUndefined, JsArray(2)} \cup
  UNION { { MkObject(key, top, items) :
              top \in {JsUndefined, JsString} \cup Arrays(MaxLen),
              items \in {JsUndefined, JsObject(key :> JsArray(MaxNested))} } :
          key \in BodyKeys }

Request(path, mode, fail, body) ==
  [t |-> "request", path |-> path, query |-> [mode |-> mode, fail |-> fail], body |-> body]

Requests == {Request(p, m, f, b) : p \in Paths, m \in Modes, f \in Fails, b \in Bodies}

\* the smaller request set of the history specification
HistRequests ==
  { Request(p, m, f, b) :
      p \in Paths,
      m \in { QUndefined, QString(<<"P","A","R","T","I","A","L">>),
              QString(<<"e","r","r","o","r">>),
              QArray(<< <<"o","k">>, <<"e","r","r","o","r">> >>) },
      f \in { QUndefined, QString(<<"2">>) },
      b \in { JsUndefined,
              MkObject("customers", JsArray(2), JsUndefined),
              MkObject("trades", JsArray(MaxLen), JsUndefined) } }

\* arguments for direct calls of computeCounts: a missing request, a request
\* without body, and every body shape
CountBodies ==
  {JsUndefined, JsNull, JsArray(2)} \cup
  { MkObject(key, top, items) :
      key \in BodyKeys,
      top \in {JsUndefined, JsNull, JsString} \cup Arrays(MaxLen),
      items \in {JsUndefined, JsNull, JsString, JsArray(1), JsObject(<<>>)} \cup
                { JsObject(k2 :> n) : k2 \in BodyKeys,
                                      n \in {JsNull, JsString} \cup Arrays(MaxNested) } }

CountRequests ==
  {JsUndefined, JsNull} \cup
  { Request("/api/v1/customers/import", QUndefined, QUndefined, b) : b \in CountBodies }

\* --------------------------------------------------------------------- state
NoReq     == JsUndefined
NoRes     == [http |-> 0, json |-> <<>>]
NoMemo    == [req |-> NoReq, res |-> NoRes, at |-> 0]
NotCalled == [called |-> FALSE]

\* nowFds() / Date.now(): the wall clock
nowFds == clock

\* the response without the freshly generated fields
Strip(r) ==
  [ http |-> r.http,
    json |-> [k \in DOMAIN r.json \ {"timestamp", "requestId", "jobId"} |-> r.json[k]] ]

Init ==
  /\ clock = 0
  /\ req = NoReq
  /\ res = NoRes
  /\ memo = NoMemo
  /\ ccReq = JsUndefined
  /\ ccName = "customers"
  /\ ccOut = NotCalled

\* POST <import path>: app.post(path, importHandler(arrayName, entityLabel))
ImportRoute(R) ==
  /\ req = NoReq
  /\ \E r \in R, g1 \in Guids, g2 \in Guids :
    /\ r.path \in ImportPaths
    /\ req' = r
    /\ res' = importHandler(ImportRoutes[r.path].arrayName,
                            ImportRoutes[r.path].entityLabel,
                            r, nowFds, g1, nowFds, nowFds, g2)
    /\ UNCHANGED <<clock, memo, ccReq, ccName, ccOut>>

\* GET /api/v1/coas/search
SearchRoute(R) ==
  /\ req = NoReq
  /\ \E r \in R :
    /\ r.path = SearchPath
    /\ req' = r
    /\ res' = searchHandler(r, nowFds)
    /\ UNCHANGED <<clock, memo, ccReq, ccName, ccOut>>

\* GET /health
HealthRoute(R) ==
  /\ req = NoReq
  /\ \E r \in R :
    /\ r.path = HealthPath
    /\ req' = r
    /\ res' = healthHandler(r, nowFds)
    /\ UNCHANGED <<clock, memo, ccReq, ccName, ccOut>>

\* the clock after a response: time may have passed
Later == {t \in {clock, clock + 1} : t <= MaxClock}

\* the response has been written; the server waits for the next request
Finish ==
  /\ req # NoReq
  /\ req' = NoReq
  /\ res' = NoRes
  /\ clock' \in Later
  /\ UNCHANGED <<memo, ccReq, ccName, ccOut>>

\* as Finish, and an observer keeps this exchange for later comparison
Remember ==
  /\ req # NoReq
  /\ memo' = [req |-> req, res |-> Strip(res), at |-> clock]
  /\ req' = NoReq
  /\ res' = NoRes
  /\ clock' \in Later
  /\ UNCHANGED <<ccReq, ccName, ccOut>>

Import == ImportRoute(Requests)
Search == SearchRoute(Requests)
Health == HealthRoute(Requests)

Next == Import \/ Search \/ Health \/ Finish

Spec == Init /\ [][Next]_vars

\* history specification: the same server, a smaller request set, and an
\* observer that remembers one earlier exchange
ImportHist == ImportRoute(HistRequests)
SearchHist == SearchRoute(HistRequests)
HealthHist == HealthRoute(HistRequests)

NextHist == ImportHist \/ SearchHist \/ HealthHist \/ Finish \/ Remember

SpecHist == Init /\ [][NextHist]_vars

\* direct calls of the pure function computeCounts
InitCounts ==
  /\ clock = 0
  /\ req = NoReq
  /\ res = NoRes
  /\ memo = NoMemo
  /\ ccReq \in CountRequests
  /\ ccName \in ArrayNames
  /\ ccOut = NotCalled

CallComputeCounts ==
  /\ ccOut = NotCalled
  /\ ccOut' = computeCounts(ccReq, ccName)
  /\ UNCHANGED <<clock, req, res, memo, ccReq, ccName>>

NextCounts == CallComputeCounts

SpecCounts == InitCounts /\ [][NextCounts]_vars

\* ================================================================ properties
Handled  == req # NoReq
IsImport == Handled /\ req.path \in ImportPaths
IsSearch == Handled /\ req.path = SearchPath
Answered == IsImport /\ res.http = 200

\* the query value is the string `lower`, in any mix of the letter cases
\* spelled out by `lower` and `upper`
Spelled(q, lower, upper) ==
  /\ q.t = "string"
  /\ Len(q.s) = Len(lower)
  /\ \A i \in DOMAIN lower : q.s[i] \in {lower[i], upper[i]}

IsEmptyMode(q)   == Spelled(q, <<"e","m","p","t","y">>, <<"E","M","P","T","Y">>)
IsPartialMode(q) == Spelled(q, <<"p","a","r","t","i","a","l">>, <<"P","A","R","T","I","A","L">>)
IsErrorMode(q)   == Spelled(q, <<"e","r","r","o","r">>, <<"E","R","R","O","R">>)
\* ok, absent, or any other string
IsOkMode(q) ==
  /\ q.t \in {"undefined", "string"}
  /\ ~IsEmptyMode(q) /\ ~IsPartialMode(q) /\ ~IsErrorMode(q)

ImportEnvelopeFields ==
  { "status", "message", "timestamp", "requestId", "jobId", "receivedCount",
    "processedCount", "successCount", "failCount", "errors" }
IsImportEnvelope(j) == ImportEnvelopeFields \subseteq DOMAIN j

CountFields == {"receivedCount", "processedCount", "successCount", "failCount"}
IsNonNegInt(x) == x.k = "fin" /\ x.d = 1 /\ x.n >= 0
Plus(a, b) == Rat(a.n * b.d + b.n * a.d, a.d * b.d)

\* the count N the handler derives for the request being answered
DerivedCount == computeCounts(req, ImportRoutes[req.path].arrayName).value

\* C1: every import handler answers every request (any mode, any fail, any
\* body) with HTTP 200 and an import envelope, and never throws.
C1_AlwaysEnvelope ==
  IsImport => (res.http = 200 /\ IsImportEnvelope(res.json))

\* C2: in every import response the four counts are integers >= 0, for every
\* mode, body and value of `fail`.
C2_CountsNonNegInt ==
  Answered => \A f \in CountFields : IsNonNegInt(res.json[f])

FailIsNonNegInt(q) == IsNonNegInt(ToNumber(q))
FailIsNotNumeric(q) == ToNumber(q) = NaN

C5_Error ==
  (IsImport /\ IsErrorMode(req.query.mode)) =>
    /\ res.http = 200
    /\ res.json.status = "Failure"
    /\ res.json.receivedCount = DerivedCount
    /\ res.json.processedCount = Num(0)
    /\ res.json.successCount = Num(0)
    /\ res.json.failCount = res.json.receivedCount
    /\ res.json.errors = <<ServerError>>
    /\ {"errorLineNumber", "errorMessage"} \subseteq DOMAIN res.json
    /\ res.json.errorLineNumber = 1

\* error mode on a body with items
C5_Witness ==
  /\ IsImport
  /\ IsErrorMode(req.query.mode)
  /\ res.http = 200
  /\ res.json.failCount = Num(MaxLen)

\* the request with its mode written in lower case
Canonical(r) ==
  LET q == r.query.mode
      m == IF IsEmptyMode(q) THEN QString(<<"e","m","p","t","y">>)
           ELSE IF IsPartialMode(q) THEN QString(<<"p","a","r","t","i","a","l">>)
           ELSE IF IsErrorMode(q) THEN QString(<<"e","r","r","o","r">>)
           ELSE q
  IN [r EXCEPT !.query.mode = m]

\* C6: when the mode is ok, absent or any other string that is not
\* empty/partial/error (compared without regard to letter case) and the body
\* yields N: receivedCount = processedCount = successCount = N, failCount 0,
\* status Success, errors empty, no errorLineNumber and no errorMessage; and a
\* mode written in another letter case selects the same variant as its
\* lower-case spelling.
C6_OkDefault ==
  /\ (IsImport /\ IsOkMode(req.query.mode)) =>
       /\ res.http = 200
       /\ res.json.receivedCount = DerivedCount
       /\ res.json.processedCount = DerivedCount
       /\ res.json.successCount = DerivedCount
       /\ res.json.failCount = Num(0)
       /\ res.json.status = "Success"
       /\ res.json.errors = <<>>
       /\ DOMAIN res.json \cap {"errorLineNumber", "errorMessage"} = {}
  /\ (IsImport /\ req.query.mode.t = "string") =>
       Strip(res) = Strip(importHandler(ImportRoutes[req.path].arrayName,
                                        ImportRoutes[req.path].entityLabel,
                                        Canonical(req), 0, 1, 0, 0, 1))

\* an unrecognized mode on a body with items
C6_Witness ==
  /\ IsImport
  /\ req.query.mode = QString(<<"b","o","g","u","s">>)
  /\ res.http = 200
  /\ res.json.successCount = Num(MaxLen)

\* C7: in empty mode, on each of the six import endpoints, all four counts
\* are 0, status is Success and errors is empty, whatever the body and `fail`.
C7_Empty ==
  (IsImport /\ IsEmptyMode(req.query.mode)) =>
    /\ res.http = 200
    /\ \A f \in CountFields : res.json[f] = Num(0)
    /\ res.json.status = "Success"
    /\ res.json.errors = <<>>

\* empty mode on a body that holds items, with a fail parameter
C7_Witness ==
  /\ IsImport
  /\ IsEmptyMode(req.query.mode)
  /\ DerivedCount = Num(MaxLen)
  /\ req.query.fail = QString(<<"2">>)
  /\ res.http = 200

\* the count C8 describes, read off the argument directly
ClaimedCount(r, name) ==
  IF r.t = "request" /\ r.body.t = "object"
  THEN LET f == r.body.f IN
       IF name \in DOMAIN f /\ f[name].t = "array" THEN Len(f[name].e)
       ELSE IF "items" \in DOMAIN f /\ f["items"].t = "object"
               /\ name \in DOMAIN f["items"].f /\ f["items"].f[name].t = "array"
            THEN Len(f["items"].f[name].e)
       ELSE 0
  ELSE 0

Called == ccOut # NotCalled

\* C8: computeCounts(req, arrayName) is the length of body[arrayName] when
\* that is an array (before any nested array), else the length of
\* body.items[arrayName] when body.items exists and that is an array, else 0
\* (also for a missing request or body, or a non-array value); it never
\* raises an error.
C8_ComputeCounts ==
  Called => (~ccOut.threw /\ ccOut.value = Num(ClaimedCount(ccReq, ccName)))

\* the fallback: no top-level field, a nested array with items
C8_Witness ==
  /\ Called
  /\ ccReq.t = "request" /\ ccReq.body.t = "object"
  /\ ccName \notin DOMAIN ccReq.body.f
  /\ ccOut = Return(Num(MaxNested))

\* C9: for every value of mode the search answers HTTP 200 with recordCount
\* = length of coas: empty gives Success/0/[]; error gives Failure/0/[] and
\* a fixed errorMessage; anything else, absent included, gives Success/1 and
\* the one fixed record; the body has no influence.
C9_Search ==
  IsSearch =>
    /\ res.http = 200
    /\ res.json.recordCount = Len(res.json.coas)
    /\ IsEmptyMode(req.query.mode) =>
         (res.json.status = "Success" /\ res.json.coas = <<>>)
    /\ IsErrorMode(req.query.mode) =>
         (res.json.status = "Failure" /\ res.json.coas = <<>>
          /\ res.json.errorMessage = "Simulated error for testing")
    /\ (~IsEmptyMode(req.query.mode) /\ ~IsErrorMode(req.query.mode)) =>
         (res.json.status = "Success" /\ res.json.coas = <<CoaRecord>>)

\* C10: the response to a request, without timestamp, requestId and jobId,
\* is the same as the response the same request got earlier, whatever was
\* handled in between.
C10_NoMemory ==
  (Handled /\ memo.req = req) => Strip(res) = memo.res

\* the remembered request is answered again at a later time
C10_Witness ==
  /\ IsImport
  /\ memo.req = req
  /\ memo.at < clock
  /\ res.http = 200
  /\ res.json.receivedCount = Num(MaxLen)

====
